---- MODULE Spec2Model ----
(***************************************************************************)
(* glacierPy: deletion of an AWS Glacier vault.                            *)
(*                                                                         *)
(* The model follows src/src/glacierPy/lib.py (delete_vault, wait_for_job, *)
(* delete_inventory, delete_archive, get_jobs), the interactive dispatch   *)
(* of src/src/glacierPy/__main__.py and the older bulk delete of           *)
(* src/glacierPyInquirer_lib.py.  The Remote Vault Service is the          *)
(* environment: every call either answers or raises, and an inventory job  *)
(* leaves InProgress at a moment the program does not control.             *)
(*                                                                         *)
(* Spec is the process started by main(): the environment check, the      *)
(* vault prompt and the selected operation, with the memoized client       *)
(* handle of get_glacier_client.  MonitorSpec is monitor_jobs, which       *)
(* lib.py exports and main() does not call.                                *)
(***************************************************************************)
EXTENDS Integers, Sequences, FiniteSets, TLC

VARIABLES
    JobList,        \* service: the vault's jobs, in the order list_jobs returns them
    vaultExists,    \* service: the vault has not been deleted
    vaultArchives,  \* service: archive ids still stored in the vault
    pc,             \* main thread: position in the running operation
    op,             \* the action selected in __select_action
    legacy,         \* TRUE when the bulk delete is the one of glacierPyInquirer_lib.py
    jobs,           \* delete_vault: the JobList that get_jobs returned
    job_id,         \* delete_vault / delete_inventory: the job (NoJob for None)
    job_status,     \* wait_for_job: local job_status
    attempts,       \* wait_for_job: local attempts
    sleeps,         \* number of time.sleep(60) calls made
    wfj_result,     \* what the caller of wait_for_job got: its value or an exception
    archive_list,   \* delete_inventory: the parsed ArchiveList
    submitted,      \* delete_inventory: number of tpe.submit calls made
    tasks,          \* delete_inventory: state of each submitted future
    yielded,        \* delete_inventory: futures as_completed has handed out
    progress,       \* delete_inventory: tqdm counter (number of progress.update(1))
    result,         \* how the selected operation ended
    retval,         \* value delete_inventory returned to its caller
    calls,          \* service calls in the order they were issued / completed
    log,            \* logger records in order
    env_region,     \* os.environ holds AWS_REGION once main has applied --region
    env_profile,    \* os.environ holds AWS_PROFILE once main has applied --profile
    args_report,    \* main: args.report
    vault,          \* args.vault, then GlacierClientInquirer.__vault ("" for None)
    exit_code,      \* status the process ended with ("none" while it runs)
    client_cache,   \* lru_cache of get_glacier_client: pairs <<key, handle>>
    created,        \* number of session.create_client calls that returned a handle
    used,           \* handles that service calls went through
    fleet,          \* service: the job list of every vault, in list_vaults order
    mpc,            \* monitor_jobs: position
    jobs_last,      \* monitor_jobs: local jobs_last (<< >> for None, <<l>> for list l)
    changed,        \* monitor_jobs: local changed
    mtrace,         \* monitor_jobs: snapshots, sleeps and print_jobs calls in order,
                    \* each with the number of job records it concerns
    printed         \* monitor_jobs: the lists print_jobs was called with

vars == <<JobList, vaultExists, vaultArchives, pc, op, legacy, jobs, job_id,
          job_status,
          attempts, sleeps, wfj_result, archive_list, submitted, tasks, yielded, progress,
          result, retval, calls, log, env_region, env_profile, args_report, vault,
          exit_code, client_cache, created, used, fleet, mpc, jobs_last, changed,
          mtrace, printed>>

(***************************************************************************)
(* Bounds of the model.                                                    *)
(***************************************************************************)
MaxJobs == 2        \* jobs in a vault's job listing
MaxArchives == 2    \* archives in an inventory
MaxPolls == 2       \* unchanged answers one polling loop is followed through
MaxVaults == 2      \* vaults list_vaults returns to monitor_jobs
MaxFleetJobs == 2   \* jobs over all the vaults monitor_jobs lists
CpuCount == 1       \* multiprocessing.cpu_count() of the host
MaxRuns == 2        \* times 'Delete Inventory' is selected for the same job

(***************************************************************************)
(* Constants of lib.py.                                                    *)
(***************************************************************************)
JOB_ACTION_INVENTORY_RETRIEVAL == "InventoryRetrieval"
JOB_STATUS_SUCCEEDED == "Succeeded"
NoJob == 0

Statuses == {"InProgress", "Succeeded", "Failed"}
Actions == {JOB_ACTION_INVENTORY_RETRIEVAL, "ArchiveRetrieval"}

Min(S) == CHOOSE x \in S : \A y \in S : x <= y

\* A job record as list_jobs / describe_job return it.  The service sets
\* Completed exactly when the job has left InProgress.  Ids are opaque: the
\* listing is not ordered by id (the first job listed has the highest id).
Job(n, p, a, s) ==
    [JobId |-> n + 1 - p, Action |-> a, Completed |-> (s # "InProgress"), StatusCode |-> s]

JobLists ==
    UNION { { [p \in 1..n |-> Job(n, p, f[p][1], f[p][2])] :
                f \in [1..n -> Actions \X Statuses] } : n \in 0..MaxJobs }

InventoryOf(n) == [i \in 1..n |-> i]

Exceptions == {"ClientError", "Exception"}

(***************************************************************************)
(* Pure parts of the code.                                                 *)
(***************************************************************************)

\* Variant: the test on Completed without its `not`.
find_completed_job(jl) ==
    LET S == { p \in 1..Len(jl) :
                 jl[p].Action = JOB_ACTION_INVENTORY_RETRIEVAL /\ jl[p].Completed }
    IN  IF S = {} THEN NoJob ELSE jl[Min(S)].JobId

\* Variant: the incomplete inventory-retrieval job with the lowest id.
find_lowest_id_incomplete_job(jl) ==
    LET S == { jl[p].JobId : p \in { q \in 1..Len(jl) :
                 jl[q].Action = JOB_ACTION_INVENTORY_RETRIEVAL /\ ~jl[q].Completed } }
    IN  IF S = {} THEN NoJob ELSE Min(S)

\* delete_vault: the loop over jobs['JobList'] that picks job_id.
find_incomplete_job(jl) ==
    LET S == { p \in 1..Len(jl) :
                 jl[p].Action = JOB_ACTION_INVENTORY_RETRIEVAL /\ ~jl[p].Completed }
    IN  IF S = {} THEN NoJob ELSE jl[Min(S)].JobId

\* Variant: the offer without the test on StatusCode.
vault_actions_any_completed(jl) ==
    { jl[p].JobId : p \in { q \in 1..Len(jl) :
        /\ jl[q].Action = JOB_ACTION_INVENTORY_RETRIEVAL
        /\ jl[q].Completed } }

\* __select_action: the jobs offered as 'Delete Inventory: ...'.
vault_actions(jl) ==
    { jl[p].JobId : p \in { q \in 1..Len(jl) :
        /\ jl[q].Action = JOB_ACTION_INVENTORY_RETRIEVAL
        /\ jl[q].Completed
        /\ jl[q].StatusCode = JOB_STATUS_SUCCEEDED } }

\* describe_job: the status the service holds for a job id.
StatusOf(jl, id) == jl[CHOOSE p \in 1..Len(jl) : jl[p].JobId = id].StatusCode

\* Variant: one poll and no loop.
KeepPolling_once(status) == FALSE

\* Variant: a loop that only ends on Failed.
KeepPolling_unless_failed(status) == status # "Failed"

\* wait_for_job: the loop goes on (attempts += 1, sleep) after this answer.
KeepPolling(status) == status = "InProgress"

\* Variant: `if job_status != 'Failed'` in front of delete_inventory.
TriggersInventory_unless_failed(status) == status # "Failed"

\* Variant: delete_inventory called for any terminal status.
TriggersInventory_any_terminal(status) == status # "InProgress"

\* wait_for_job: the test that guards the call of delete_inventory.
TriggersInventory(status) == status = JOB_STATUS_SUCCEEDED

\* Variant: `except botocore.exceptions.ClientError` around the job check.
CatchesPrecheck_ClientError_only(exc) == exc = "ClientError"

\* delete_vault: `except Exception` around get_jobs and wait_for_job.
CatchesPrecheck(exc) == exc \in Exceptions

\* Variant: `except botocore.exceptions.ClientError` around future.result().
CatchesTaskError_ClientError_only(exc) == exc = "ClientError"

\* delete_inventory: `except Exception` around future.result().
CatchesTaskError(exc) == exc \in Exceptions

\* Variant: the futures are iterated and the pool shut down without waiting.
FutureDone_no_wait(t) == t \in {"queued", "running", "ok", "ClientError", "Exception"}

\* concurrent.futures: a future as_completed may yield and shutdown waits for.
FutureDone(t) == t \in {"ok"} \cup Exceptions

\* Variant: progress.update(1) inside the try, after future.result().
ProgressAfter_success_only(n, failed) == IF failed THEN n ELSE n + 1

\* delete_inventory: progress.update(1) after the try/except of a future.
ProgressAfter(n, failed) == n + 1

\* Variant: only ClientError is logged by the loop over the futures.
ResultLog_ClientError_only(t) ==
    IF t = "ClientError" THEN << <<"error", "delete_archive_failed">> >> ELSE << >>

\* delete_inventory: logger.error in the except branch of future.result().
ResultLog(t) == IF t \in Exceptions THEN << <<"error", "delete_archive_failed">> >> ELSE << >>

\* delete_inventory has no return statement.
delete_inventory_value(succeeded, failed) == <<"None">>

\* ThreadPoolExecutor(): min(32, cpu_count + 4) workers; the older bulk
\* delete passes max_workers = cpu_count.
max_workers(lg) == IF lg THEN CpuCount
                   ELSE IF CpuCount + 4 < 32 THEN CpuCount + 4 ELSE 32

\* Variant: the ClientError clause placed before the InvalidParameterValue one.
delete_vault_handler_generic_first(outcome) ==
    CASE outcome = "ok" ->
            [log |-> << <<"info", "deleted_vault">> >>, result |-> "returned"]
      [] outcome \in {"InvalidParameterValueException", "ClientError"} ->
            [log |-> << <<"error", "delete_vault_failed">> >>, result |-> "ClientError"]
      [] OTHER ->
            [log |-> << >>, result |-> outcome]

\* Variant: the ClientError clause logs and does not re-raise.
delete_vault_handler_no_raise(outcome) ==
    CASE outcome = "ok" ->
            [log |-> << <<"info", "deleted_vault">> >>, result |-> "returned"]
      [] outcome = "InvalidParameterValueException" ->
            [log |-> << <<"warning", "vault_not_empty">> >>, result |-> "returned"]
      [] outcome = "ClientError" ->
            [log |-> << <<"error", "delete_vault_failed">> >>, result |-> "returned"]
      [] OTHER ->
            [log |-> << >>, result |-> outcome]

\* delete_vault: the except clauses around client.delete_vault.
delete_vault_handler(outcome) ==
    CASE outcome = "ok" ->
            [log |-> << <<"info", "deleted_vault">> >>, result |-> "returned"]
      [] outcome = "InvalidParameterValueException" ->
            [log |-> << <<"warning", "vault_not_empty">> >>, result |-> "returned"]
      [] outcome = "ClientError" ->
            [log |-> << <<"error", "delete_vault_failed">> >>, result |-> "ClientError"]
      [] OTHER ->
            [log |-> << >>, result |-> outcome]

\* main: os.environ[...] = args.region / args.profile when the option is given.
EnvAfterArgs(in_environ, in_args) == in_environ \/ in_args

\* __check_environment: AWS_PROFILE is tested first, then AWS_REGION.
check_environment(profile, region) ==
    IF ~profile THEN "profile_missing"
    ELSE IF ~region THEN "region_missing" ELSE "ok"

\* The main thread; pool threads are named by the task they run.
MainThread == 0

\* Variant: a cache key that holds the calling thread.
CacheKey_per_thread(thread) == <<thread>>

\* get_glacier_client: the lru_cache key of a call without arguments.
CacheKey(thread) == << >>

Running == { i \in 1..Len(tasks) : tasks[i] = "running" }
Queued == { i \in 1..Len(tasks) : tasks[i] = "queued" }
Joined == \A i \in 1..Len(tasks) : FutureDone(tasks[i])

(***************************************************************************)
(* Initial state: main() starts; no operation has run, no handle exists    *)
(* and monitor_jobs is not running.                                        *)
(***************************************************************************)
MonitorOff ==
    /\ fleet = << >>
    /\ mpc = "off"
    /\ jobs_last = << >>
    /\ changed = FALSE
    /\ mtrace = << >>
    /\ printed = << >>

NoClient ==
    /\ client_cache = {}
    /\ created = 0
    /\ used = {}

Init ==
    /\ JobList \in JobLists
    /\ pc = "main"
    /\ env_region \in { EnvAfterArgs(e, a) : e, a \in BOOLEAN }
    /\ env_profile \in { EnvAfterArgs(e, a) : e, a \in BOOLEAN }
    /\ args_report \in BOOLEAN
    /\ vault \in {"", "v"}
    /\ exit_code = "none"
    /\ NoClient
    /\ MonitorOff
    /\ vaultExists = TRUE
    /\ vaultArchives = 1..MaxArchives
    /\ op = "none"
    /\ legacy = FALSE
    /\ jobs = << >>
    /\ job_id = NoJob
    /\ job_status = "unset"
    /\ attempts = 0
    /\ sleeps = 0
    /\ wfj_result = "unset"
    /\ archive_list = << >>
    /\ submitted = 0
    /\ tasks = << >>
    /\ yielded = {}
    /\ progress = 0
    /\ result = "none"
    /\ retval = <<"unset">>
    /\ calls = << >>
    /\ log = << >>

service == <<JobList, vaultExists, vaultArchives>>
startup == <<env_region, env_profile, args_report, vault, exit_code>>
client == <<client_cache, created, used>>
monitor == <<fleet, mpc, jobs_last, changed, mtrace, printed>>
waiter == <<job_status, attempts, sleeps, wfj_result>>
bulk == <<archive_list, submitted, tasks, yielded, progress, retval>>

(***************************************************************************)
(* An exception leaves get_jobs, wait_for_job or delete_inventory: inside  *)
(* delete_vault it meets the try block of the job check, otherwise it      *)
(* reaches the caller of the selected operation.                           *)
(***************************************************************************)
Raise(exc, lg) ==
    /\ wfj_result' = IF op = "delete_vault" /\ job_id # NoJob THEN exc ELSE wfj_result
    /\ IF op = "delete_vault" /\ CatchesPrecheck(exc)
       THEN /\ pc' = "dv_delete"
            /\ log' = Append(lg, <<"warning", "could_not_check_jobs">>)
            /\ result' = result
       ELSE /\ pc' = "done"
            /\ log' = lg
            /\ result' = exc

(***************************************************************************)
(* get_glacier_client() called by a thread that then issues a service      *)
(* call: a cached handle is returned, otherwise one is created and cached. *)
(***************************************************************************)
GetClient(thread) ==
    LET hit == { e \in client_cache : e[1] = CacheKey(thread) } IN
    IF hit # {}
    THEN /\ used' = used \cup { e[2] : e \in hit }
         /\ UNCHANGED <<client_cache, created>>
    ELSE /\ created' = created + 1
         /\ client_cache' = client_cache \cup { <<CacheKey(thread), created + 1>> }
         /\ used' = used \cup { created + 1 }

(***************************************************************************)
(* main, GlacierClientInquirer.run up to the action prompt                 *)
(***************************************************************************)

\* get_vaults or get_jobs called outside any try block: it answers and the
\* process goes on at `next`, or an exception ends the process.  The first
\* call builds the handle; session.create_client may raise instead.
StartupCall(name, failed, next) ==
    \/ /\ client_cache = {}
       /\ pc' = "exited"
       /\ exit_code' = "1"
       /\ UNCHANGED <<client, calls, log>>
    \/ /\ GetClient(MainThread)
       /\ \E outcome \in {"ok"} \cup Exceptions :
            /\ calls' = Append(calls, <<name, 0, outcome>>)
            /\ pc' = IF outcome = "ok" THEN next ELSE "exited"
            /\ exit_code' = IF outcome # "ok" THEN "1"
                            ELSE IF next = "exited" THEN "0" ELSE exit_code
            /\ log' = IF outcome = "ClientError"
                      THEN Append(log, <<"error", failed>>) ELSE log

Main ==
    /\ pc = "main"
    /\ pc' = IF args_report THEN "report" ELSE "check_env"
    /\ UNCHANGED <<service, op, legacy, jobs, job_id, waiter, bulk, result, calls, log,
                   startup, client, monitor>>

Report ==
    /\ pc = "report"
    /\ IF vault # ""
       THEN StartupCall("list_jobs", "list_jobs_failed", "exited")
       ELSE StartupCall("list_vaults", "list_vaults_failed", "exited")
    /\ UNCHANGED <<service, op, legacy, jobs, job_id, waiter, bulk, result,
                   env_region, env_profile, args_report, vault, monitor>>

CheckEnvironment ==
    /\ pc = "check_env"
    /\ LET found == check_environment(env_profile, env_region) IN
        IF found = "ok"
        THEN /\ pc' = IF vault = "" THEN "print_vaults" ELSE "print_vault_state"
             /\ UNCHANGED <<log, exit_code>>
        ELSE /\ pc' = "exited"
             /\ log' = Append(log, <<"error", found>>)
             /\ exit_code' = "1"
    /\ UNCHANGED <<service, op, legacy, jobs, job_id, waiter, bulk, result, calls,
                   env_region, env_profile, args_report, vault, client, monitor>>

PrintVaults ==
    /\ pc = "print_vaults"
    /\ StartupCall("list_vaults", "list_vaults_failed", "select_vault")
    /\ UNCHANGED <<service, op, legacy, jobs, job_id, waiter, bulk, result,
                   env_region, env_profile, args_report, vault, monitor>>

SelectVault ==
    /\ pc = "select_vault"
    /\ \E choice \in {"v", "__exit"} :
        /\ StartupCall("list_vaults", "list_vaults_failed",
                       IF choice = "__exit" THEN "exited" ELSE "print_vault_state")
        /\ vault' = IF pc' = "print_vault_state" THEN choice ELSE vault
    /\ UNCHANGED <<service, op, legacy, jobs, job_id, waiter, bulk, result,
                   env_region, env_profile, args_report, monitor>>

PrintVaultState ==
    /\ pc = "print_vault_state"
    /\ StartupCall("list_jobs", "list_jobs_failed", "idle")
    /\ UNCHANGED <<service, op, legacy, jobs, job_id, waiter, bulk, result,
                   env_region, env_profile, args_report, vault, monitor>>

\* The service: an inventory job leaves InProgress.
JobCompletes ==
    \E p \in 1..Len(JobList), s \in {"Succeeded", "Failed"} :
        /\ JobList[p].StatusCode = "InProgress"
        /\ JobList' = [JobList EXCEPT ![p] = Job(Len(JobList), p, @.Action, s)]
        /\ UNCHANGED <<vaultExists, vaultArchives, pc, op, legacy, jobs, job_id, waiter,
                       bulk, result, calls, log>>
        /\ UNCHANGED <<startup, client, monitor>>

(***************************************************************************)
(* __select_action                                                         *)
(***************************************************************************)
SelectDeleteVault ==
    /\ pc = "idle"
    /\ calls' = Append(calls, <<"list_jobs", 0, "ok">>)
    /\ op' = "delete_vault"
    /\ pc' = "dv_get_jobs"
    /\ UNCHANGED <<service, legacy, jobs, job_id, waiter, bulk, result, log>>
    /\ GetClient(MainThread)
    /\ UNCHANGED <<startup, monitor>>

SelectDeleteInventory ==
    \E j \in vault_actions(JobList), lg \in BOOLEAN :
        /\ pc = "idle"
        /\ calls' = Append(calls, <<"list_jobs", 0, "ok">>)
        /\ op' = "delete_inventory"
        /\ legacy' = lg
        /\ job_id' = j
        /\ pc' = "di_fetch"
        /\ UNCHANGED <<service, jobs, waiter, bulk, result, log>>
        /\ GetClient(MainThread)
        /\ UNCHANGED <<startup, monitor>>

(***************************************************************************)
(* delete_vault, first part: get_jobs and the choice of job_id             *)
(***************************************************************************)
DvGetJobs ==
    /\ pc = "dv_get_jobs"
    /\ \E outcome \in {"ok"} \cup Exceptions :
        /\ calls' = Append(calls, <<"list_jobs", 0, outcome>>)
        /\ IF outcome = "ok"
           THEN /\ jobs' = JobList
                /\ job_id' = find_incomplete_job(jobs')
                /\ IF job_id' = NoJob
                   THEN pc' = "dv_delete" /\ job_status' = job_status
                        /\ wfj_result' = "None"
                   ELSE pc' = "wfj_poll" /\ job_status' = "InProgress"
                        /\ wfj_result' = wfj_result
                /\ UNCHANGED <<log, result>>
           ELSE /\ Raise(outcome, IF outcome = "ClientError"
                                  THEN Append(log, <<"error", "list_jobs_failed">>)
                                  ELSE log)
                /\ UNCHANGED <<jobs, job_id, job_status>>
    /\ UNCHANGED <<service, op, legacy, attempts, sleeps, bulk>>
    /\ GetClient(MainThread)
    /\ UNCHANGED <<startup, monitor>>

(***************************************************************************)
(* wait_for_job                                                            *)
(***************************************************************************)
WfjLeave(status) ==
    IF TriggersInventory(status)
    THEN pc' = "di_fetch" /\ wfj_result' = wfj_result
    ELSE pc' = "dv_delete" /\ wfj_result' = "None"

WfjPoll ==
    /\ pc = "wfj_poll"
    /\ \/ LET s == StatusOf(JobList, job_id) IN
            /\ s = "InProgress" => attempts < MaxPolls
            /\ calls' = Append(calls, <<"describe_job", job_id, s>>)
            /\ job_status' = s
            /\ IF KeepPolling(s)
               THEN pc' = "wfj_sleep" /\ attempts' = attempts + 1
                    /\ wfj_result' = wfj_result
               ELSE WfjLeave(s) /\ attempts' = attempts
            /\ UNCHANGED <<log, result>>
       \/ /\ calls' = Append(calls, <<"describe_job", job_id, "ClientError">>)
          /\ log' = Append(log, <<"error", "describe_job_failed">>)
          /\ WfjLeave(job_status)
          /\ UNCHANGED <<job_status, attempts, result>>
       \/ /\ calls' = Append(calls, <<"describe_job", job_id, "Exception">>)
          /\ Raise("Exception", log)
          /\ UNCHANGED <<job_status, attempts>>
    /\ UNCHANGED <<service, op, legacy, jobs, job_id, sleeps, bulk>>
    /\ GetClient(MainThread)
    /\ UNCHANGED <<startup, monitor>>

WfjSleep ==
    /\ pc = "wfj_sleep"
    /\ sleeps' = sleeps + 1
    /\ pc' = "wfj_poll"
    /\ UNCHANGED <<service, op, legacy, jobs, job_id, job_status, attempts, wfj_result,
                   bulk, result, calls, log>>
    /\ UNCHANGED <<startup, client, monitor>>

(***************************************************************************)
(* delete_inventory                                                        *)
(***************************************************************************)
DiFetch ==
    /\ pc = "di_fetch"
    /\ \/ \E n \in 0..MaxArchives :
            /\ calls' = Append(calls, <<"get_job_output", job_id, "ok">>)
            /\ archive_list' = InventoryOf(n)
            /\ pc' = IF n = 0 THEN "di_as_completed" ELSE "di_submit"
            /\ UNCHANGED <<log, result, wfj_result>>
       \/ \E exc \in Exceptions :
            /\ calls' = Append(calls, <<"get_job_output", job_id, exc>>)
            /\ Raise(exc, IF exc = "ClientError" /\ ~legacy
                          THEN Append(log, <<"error", "get_job_output_failed">>)
                          ELSE log)
            /\ UNCHANGED archive_list
    /\ UNCHANGED <<service, op, legacy, jobs, job_id, job_status, attempts, sleeps,
                   submitted, tasks, yielded, progress, retval>>
    /\ GetClient(MainThread)
    /\ UNCHANGED <<startup, monitor>>

DiSubmit ==
    /\ pc = "di_submit"
    /\ submitted < Len(archive_list)
    /\ submitted' = submitted + 1
    /\ tasks' = Append(tasks, "queued")
    /\ pc' = IF submitted' = Len(archive_list) THEN "di_as_completed" ELSE "di_submit"
    /\ UNCHANGED <<service, op, legacy, jobs, job_id, waiter, archive_list, yielded,
                   progress, retval, result, calls, log>>
    /\ UNCHANGED <<startup, client, monitor>>

\* A pool thread takes the oldest queued task and calls delete_archive.
WorkerStart ==
    /\ Queued # {}
    /\ Cardinality(Running) < max_workers(legacy)
    /\ LET i == Min(Queued) IN
        /\ tasks' = [tasks EXCEPT ![i] = "running"]
        /\ calls' = Append(calls, <<"delete_archive", archive_list[i], "sent">>)
        /\ GetClient(i)
    /\ UNCHANGED <<service, pc, op, legacy, jobs, job_id, waiter, archive_list, submitted,
                   yielded, progress, retval, result, log>>
    /\ UNCHANGED <<startup, monitor>>

\* delete_archive returns or raises in its pool thread.
WorkerFinish ==
    \E i \in Running, outcome \in {"ok"} \cup Exceptions :
        /\ tasks' = [tasks EXCEPT ![i] = outcome]
        /\ vaultArchives' = IF outcome = "ok" THEN vaultArchives \ {archive_list[i]}
                            ELSE vaultArchives
        /\ log' = IF outcome = "ClientError" /\ ~legacy
                  THEN Append(log, <<"error", "delete_archive_call_failed">>)
                  ELSE log
        /\ UNCHANGED <<JobList, vaultExists, pc, op, legacy, jobs, job_id, waiter,
                       archive_list, submitted, yielded, progress, retval, result,
                       calls>>
        /\ UNCHANGED <<startup, client, monitor>>

\* One turn of the loop over as_completed(tasks), or its end.
DiAsCompleted ==
    /\ pc = "di_as_completed"
    /\ IF yielded = 1..Len(tasks)
       THEN /\ pc' = "di_shutdown"
            /\ UNCHANGED <<yielded, progress, log, result, wfj_result>>
       ELSE \E i \in (1..Len(tasks)) \ yielded :
            /\ FutureDone(tasks[i])
            /\ yielded' = yielded \cup {i}
            /\ IF legacy
               THEN /\ progress' = progress + 1
                    /\ UNCHANGED <<pc, log, result, wfj_result>>
               ELSE IF tasks[i] \in Exceptions /\ ~CatchesTaskError(tasks[i])
                    THEN /\ Raise(tasks[i], log)
                         /\ UNCHANGED progress
                    ELSE /\ progress' = ProgressAfter(progress, tasks[i] \in Exceptions)
                         /\ log' = log \o ResultLog(tasks[i])
                         /\ UNCHANGED <<pc, result, wfj_result>>
    /\ UNCHANGED <<service, op, legacy, jobs, job_id, job_status, attempts, sleeps,
                   archive_list, submitted, tasks, retval, calls>>
    /\ UNCHANGED <<startup, client, monitor>>

\* The executor's with block ends (shutdown(wait=True)) and the function returns.
DiShutdown ==
    /\ pc = "di_shutdown"
    /\ Joined
    /\ retval' = delete_inventory_value(
                    Cardinality({i \in 1..Len(tasks) : tasks[i] = "ok"}),
                    Cardinality({i \in 1..Len(tasks) : tasks[i] \in Exceptions}))
    /\ IF op = "delete_vault"
       THEN pc' = "dv_delete" /\ result' = result /\ wfj_result' = "None"
       ELSE pc' = "done" /\ result' = "returned" /\ wfj_result' = wfj_result
    /\ UNCHANGED <<service, op, legacy, jobs, job_id, job_status, attempts, sleeps,
                   archive_list, submitted, tasks, yielded, progress, calls, log>>
    /\ UNCHANGED <<startup, client, monitor>>

(***************************************************************************)
(* delete_vault, second part: client.delete_vault                          *)
(***************************************************************************)
DvDelete ==
    /\ pc = "dv_delete"
    /\ \E outcome \in {"ok", "InvalidParameterValueException"} \cup Exceptions :
        /\ calls' = Append(calls, <<"delete_vault", 0, outcome>>)
        /\ vaultExists' = (outcome # "ok")
        /\ log' = log \o delete_vault_handler(outcome).log
        /\ result' = delete_vault_handler(outcome).result
    /\ pc' = "done"
    /\ UNCHANGED <<JobList, vaultArchives, op, legacy, jobs, job_id, waiter, bulk>>
    /\ GetClient(MainThread)
    /\ UNCHANGED <<startup, monitor>>

Next ==
    \/ Main
    \/ Report
    \/ CheckEnvironment
    \/ PrintVaults
    \/ SelectVault
    \/ PrintVaultState
    \/ JobCompletes
    \/ SelectDeleteVault
    \/ SelectDeleteInventory
    \/ DvGetJobs
    \/ WfjPoll
    \/ WfjSleep
    \/ DiFetch
    \/ DiSubmit
    \/ WorkerStart
    \/ WorkerFinish
    \/ DiAsCompleted
    \/ DiShutdown
    \/ DvDelete

Spec == Init /\ [][Next]_vars

(***************************************************************************)
(* monitor_jobs, called on its own (lib.py exports it; main never calls    *)
(* it).  The service holds a fleet of vaults, each with its job list; a    *)
(* snapshot is one get_vaults call and one get_jobs call per vault.        *)
(***************************************************************************)
MonitorStatuses == {"InProgress", JOB_STATUS_SUCCEEDED}

RECURSIVE Sum(_)
Sum(sz) == IF sz = << >> THEN 0 ELSE Head(sz) + Sum(Tail(sz))

\* The fleet whose k-th vault holds sz[k] jobs, of the kinds f lists in order.
FleetOf(sz, f) ==
    [k \in 1..Len(sz) |->
        [VaultName |-> k,
         JobList |-> [p \in 1..sz[k] |->
            LET kind == f[Sum(SubSeq(sz, 1, k - 1)) + p]
            IN  Job(sz[k], p, kind[1], kind[2])]]]

Fleets ==
    UNION { UNION { { FleetOf(sz, f) : f \in [1..Sum(sz) -> Actions \X MonitorStatuses] } :
                      sz \in { z \in [1..nv -> 0..MaxFleetJobs] : Sum(z) <= MaxFleetJobs } } :
              nv \in 0..MaxVaults }

\* The incomplete inventory-retrieval jobs of one vault, each with its vault.
incomplete_jobs(v) ==
    LET keep == SelectSeq(v.JobList,
                    LAMBDA item : item.Action = JOB_ACTION_INVENTORY_RETRIEVAL
                                  /\ ~item.Completed)
    IN  [p \in 1..Len(keep) |->
            [Vault |-> v.VaultName, JobId |-> keep[p].JobId, Action |-> keep[p].Action,
             Completed |-> keep[p].Completed, StatusCode |-> keep[p].StatusCode]]

\* One pass over get_vaults(): the lists of the vaults, extended in order.
RECURSIVE Snapshot(_)
Snapshot(fl) ==
    IF fl = << >> THEN << >> ELSE incomplete_jobs(Head(fl)) \o Snapshot(Tail(fl))

\* Variant: jobs_last starts as a list whatever the initial check finds.
first_jobs_last_always_list(s) == <<s>>

\* Initial check: jobs_last stays None unless a vault has an incomplete job.
first_jobs_last(s) == IF s = << >> THEN << >> ELSE <<s>>

\* `if jobs_last:` : neither None nor the empty list.
Truthy(jl) == jl # << >> /\ jl[1] # << >>

\* changed = (jobs_now != jobs_last): comparison of two lists.
snapshot_changed(jobs_now, last) == jobs_now # last

\* The calls of one pass that goes through, and of one that fails at
\* get_vaults (k = 0) or at the get_jobs of the k-th vault.
ListingCalls(fl) ==
    <<<<"list_vaults", 0, "ok">>>> \o [k \in 1..Len(fl) |-> <<"list_jobs", 0, "ok">>]

FailedListing(fl, k, exc) ==
    IF k = 0 THEN <<<<"list_vaults", 0, exc>>>>
    ELSE SubSeq(ListingCalls(fl), 1, k) \o <<<<"list_jobs", 0, exc>>>>

Sleeps == Cardinality({ k \in 1..Len(mtrace) : mtrace[k][1] = "sleep" })

rest == <<service, pc, op, legacy, jobs, job_id, waiter, bulk, result, startup>>

MonitorInit ==
    /\ fleet \in Fleets
    /\ mpc = "start"
    /\ jobs_last = << >>
    /\ changed = FALSE
    /\ mtrace = << >>
    /\ printed = << >>
    /\ NoClient
    /\ JobList = << >>
    /\ pc = "monitor_jobs"
    /\ env_region = TRUE
    /\ env_profile = TRUE
    /\ args_report = FALSE
    /\ vault = ""
    /\ exit_code = "none"
    /\ vaultExists = TRUE
    /\ vaultArchives = {}
    /\ op = "none"
    /\ legacy = FALSE
    /\ jobs = << >>
    /\ job_id = NoJob
    /\ job_status = "unset"
    /\ attempts = 0
    /\ sleeps = 0
    /\ wfj_result = "unset"
    /\ archive_list = << >>
    /\ submitted = 0
    /\ tasks = << >>
    /\ yielded = {}
    /\ progress = 0
    /\ result = "none"
    /\ retval = <<"unset">>
    /\ calls = << >>
    /\ log = << >>

\* get_vaults or get_jobs raises: nothing in monitor_jobs catches it.
MonitorRaise(k, exc) ==
    /\ calls' = calls \o FailedListing(fleet, k, exc)
    /\ log' = IF exc = "ClientError"
              THEN Append(log, <<"error", IF k = 0 THEN "list_vaults_failed"
                                                   ELSE "list_jobs_failed">>)
              ELSE log
    /\ mpc' = "raised"
    /\ UNCHANGED <<jobs_last, changed, mtrace, printed>>

\* The initial check and the print_jobs that follows it.
MonitorStart ==
    /\ mpc = "start"
    /\ GetClient(MainThread)
    /\ \/ \E k \in 0..Len(fleet), exc \in Exceptions : MonitorRaise(k, exc)
       \/ LET s == Snapshot(fleet) IN
            /\ calls' = calls \o ListingCalls(fleet)
            /\ jobs_last' = first_jobs_last(s)
            /\ mtrace' = mtrace \o <<<<"snapshot", Len(s)>>>>
                            \o (IF Truthy(jobs_last') THEN <<<<"print", Len(s)>>>> ELSE << >>)
            /\ printed' = IF Truthy(jobs_last') THEN Append(printed, s) ELSE printed
            /\ mpc' = "loop"
            /\ UNCHANGED <<changed, log>>
    /\ UNCHANGED <<fleet, rest>>

\* One iteration of `while not changed`, and what follows the loop when
\* the iteration leaves it.
MonitorIterate ==
    /\ mpc = "loop"
    /\ IF jobs_last = << >>
       THEN /\ mpc' = "done"
            /\ UNCHANGED <<jobs_last, changed, mtrace, printed, calls, log, client>>
       ELSE /\ GetClient(MainThread)
            /\ \/ \E k \in 0..Len(fleet), exc \in Exceptions : MonitorRaise(k, exc)
               \/ LET jobs_now == Snapshot(fleet)
                      differs == snapshot_changed(jobs_now, jobs_last[1])
                  IN  /\ calls' = calls \o ListingCalls(fleet)
                      /\ changed' = differs
                      /\ jobs_last' = <<jobs_now>>
                      /\ IF differs
                         THEN /\ mpc' = "done"
                              /\ mtrace' = mtrace \o <<<<"snapshot", Len(jobs_now)>>>>
                                    \o (IF Truthy(jobs_last')
                                        THEN <<<<"print", Len(jobs_now)>>>> ELSE << >>)
                              /\ printed' = IF Truthy(jobs_last')
                                            THEN Append(printed, jobs_now) ELSE printed
                              /\ log' = IF Truthy(jobs_last')
                                        THEN Append(log, <<"info", "job_status_changed">>)
                                        ELSE log
                         ELSE /\ mpc' = "sleep"
                              /\ mtrace' = Append(mtrace, <<"snapshot", Len(jobs_now)>>)
                              /\ UNCHANGED <<printed, log>>
    /\ UNCHANGED <<fleet, rest>>

\* time.sleep(wait_time) at the end of an iteration that saw no change.
MonitorSleep ==
    /\ mpc = "sleep"
    /\ Sleeps < MaxPolls
    /\ mtrace' = Append(mtrace, <<"sleep", 0>>)
    /\ mpc' = "loop"
    /\ UNCHANGED <<fleet, jobs_last, changed, printed, calls, log, client, rest>>

\* The service while monitor_jobs runs: a job of some vault completes.
FleetJobCompletes ==
    /\ mpc \in {"start", "loop", "sleep"}
    /\ \E v \in 1..Len(fleet) : \E p \in 1..Len(fleet[v].JobList) :
        /\ fleet[v].JobList[p].StatusCode = "InProgress"
        /\ fleet' = [fleet EXCEPT ![v].JobList[p] =
                        [@ EXCEPT !.Completed = TRUE, !.StatusCode = JOB_STATUS_SUCCEEDED]]
    /\ UNCHANGED <<mpc, jobs_last, changed, mtrace, printed, calls, log, client, rest>>

Swap(seq, i) ==
    [k \in 1..Len(seq) |-> IF k = i THEN seq[i + 1] ELSE IF k = i + 1 THEN seq[i] ELSE seq[k]]

\* The service while monitor_jobs runs: ListVaults or ListJobs answers in
\* another order than before (the API fixes none).
FleetListingReorders ==
    /\ mpc \in {"start", "loop", "sleep"}
    /\ \/ \E i \in 1..(Len(fleet) - 1) : fleet' = Swap(fleet, i)
       \/ \E v \in 1..Len(fleet) : \E i \in 1..(Len(fleet[v].JobList) - 1) :
            fleet' = [fleet EXCEPT ![v].JobList = Swap(@, i)]
    /\ UNCHANGED <<mpc, jobs_last, changed, mtrace, printed, calls, log, client, rest>>

MonitorNext ==
    \/ MonitorStart
    \/ MonitorIterate
    \/ MonitorSleep
    \/ FleetJobCompletes
    \/ FleetListingReorders

MonitorSpec == MonitorInit /\ [][MonitorNext]_vars

(***************************************************************************)
(* delete_vault called on its own, as tests/test_glacierPy_lib.py calls    *)
(* it: no handle exists yet and the vault may be empty.  WaitSpec is the   *)
(* case of a vault with one running inventory job, with the fairness that  *)
(* the thread running delete_vault and the pool threads go on: a call that *)
(* can answer does answer, a sleep ends.                                   *)
(***************************************************************************)
DeleteVaultInit ==
    /\ JobList \in JobLists
    /\ vaultExists = TRUE
    /\ vaultArchives \in {{}, 1..MaxArchives}
    /\ pc = "dv_get_jobs"
    /\ op = "delete_vault"
    /\ legacy = FALSE
    /\ jobs = << >>
    /\ job_id = NoJob
    /\ job_status = "unset"
    /\ attempts = 0
    /\ sleeps = 0
    /\ wfj_result = "unset"
    /\ archive_list = << >>
    /\ submitted = 0
    /\ tasks = << >>
    /\ yielded = {}
    /\ progress = 0
    /\ result = "none"
    /\ retval = <<"unset">>
    /\ calls = << >>
    /\ log = << >>
    /\ env_region = TRUE
    /\ env_profile = TRUE
    /\ args_report = FALSE
    /\ vault = "v"
    /\ exit_code = "none"
    /\ NoClient
    /\ MonitorOff

DeleteVaultNext ==
    \/ JobCompletes
    \/ DvGetJobs
    \/ WfjPoll
    \/ WfjSleep
    \/ DiFetch
    \/ DiSubmit
    \/ WorkerStart
    \/ WorkerFinish
    \/ DiAsCompleted
    \/ DiShutdown
    \/ DvDelete

DeleteVaultSpec == DeleteVaultInit /\ [][DeleteVaultNext]_vars

\* The thread that runs delete_vault: one of its steps is enabled at a time.
DeleteVaultThread ==
    \/ DvGetJobs
    \/ WfjPoll
    \/ WfjSleep
    \/ DiFetch
    \/ DiSubmit
    \/ DiAsCompleted
    \/ DiShutdown
    \/ DvDelete

PoolThreads == WorkerStart \/ WorkerFinish

\* delete_vault on a vault whose one job is a running inventory retrieval:
\* wait_for_job is entered with that job.
WaitInit ==
    /\ DeleteVaultInit
    /\ JobList = <<Job(1, 1, JOB_ACTION_INVENTORY_RETRIEVAL, "InProgress")>>
    /\ vaultArchives # {}

WaitSpec ==
    /\ WaitInit
    /\ [][DeleteVaultNext]_vars
    /\ WF_vars(DeleteVaultThread)
    /\ WF_vars(PoolThreads)

(***************************************************************************)
(* 'Delete Inventory' selected again for the same job: after an action     *)
(* GlacierClientInquirer.run asks whether to continue, lists the vaults    *)
(* and the jobs again and offers the same succeeded job.  The output of a  *)
(* job is fixed: get_job_output returns the same inventory every time.     *)
(***************************************************************************)
RerunInit ==
    /\ JobList = <<Job(1, 1, JOB_ACTION_INVENTORY_RETRIEVAL, JOB_STATUS_SUCCEEDED)>>
    /\ vaultExists = TRUE
    /\ vaultArchives = 1..MaxArchives
    /\ pc = "idle"
    /\ op = "none"
    /\ legacy = FALSE
    /\ jobs = << >>
    /\ job_id = NoJob
    /\ job_status = "unset"
    /\ attempts = 0
    /\ sleeps = 0
    /\ wfj_result = "unset"
    /\ archive_list = << >>
    /\ submitted = 0
    /\ tasks = << >>
    /\ yielded = {}
    /\ progress = 0
    /\ result = "none"
    /\ retval = <<"unset">>
    /\ calls = << <<"list_jobs", 0, "ok">> >>
    /\ log = << >>
    /\ env_region = TRUE
    /\ env_profile = TRUE
    /\ args_report = FALSE
    /\ vault = "v"
    /\ exit_code = "none"
    /\ client_cache = { <<CacheKey(MainThread), 1>> }
    /\ created = 1
    /\ used = {1}
    /\ MonitorOff

\* print_vaults, __select_vault, print_vault_state, __select_action
RelistCalls ==
    << <<"list_vaults", 0, "ok">>, <<"list_vaults", 0, "ok">>,
       <<"list_jobs", 0, "ok">>, <<"list_jobs", 0, "ok">> >>

\* delete_inventory calls so far, each with one get_job_output call
Runs == Cardinality({ k \in 1..Len(calls) : calls[k][1] = "get_job_output" })

\* run: the action has returned; the user leaves, or continues, picks the
\* same vault and the same job again; a listing that raises ends the process.
SelectAgain ==
    /\ pc = "done"
    /\ op = "delete_inventory"
    /\ result = "returned"
    /\ Runs < MaxRuns
    /\ \/ /\ pc' = "exited"
          /\ exit_code' = "0"
          /\ UNCHANGED <<calls, log, result, client>>
       \/ \E k \in 1..Len(RelistCalls), exc \in Exceptions :
          /\ calls' = calls \o SubSeq(RelistCalls, 1, k - 1)
                            \o << <<RelistCalls[k][1], 0, exc>> >>
          /\ log' = IF exc = "ClientError"
                    THEN Append(log, <<"error", IF RelistCalls[k][1] = "list_vaults"
                                                THEN "list_vaults_failed"
                                                ELSE "list_jobs_failed">>)
                    ELSE log
          /\ pc' = "exited"
          /\ exit_code' = "1"
          /\ GetClient(MainThread)
          /\ UNCHANGED result
       \/ /\ job_id \in vault_actions(JobList)
          /\ calls' = calls \o RelistCalls
          /\ pc' = "di_refetch"
          /\ result' = "none"
          /\ GetClient(MainThread)
          /\ UNCHANGED <<log, exit_code>>
    /\ UNCHANGED <<service, op, legacy, jobs, job_id, waiter, bulk,
                   env_region, env_profile, args_report, vault, monitor>>

\* delete_inventory entered again: fresh locals, the same job output.
DiRefetch ==
    /\ pc = "di_refetch"
    /\ submitted' = 0
    /\ tasks' = << >>
    /\ yielded' = {}
    /\ progress' = 0
    /\ retval' = <<"unset">>
    /\ \/ /\ calls' = Append(calls, <<"get_job_output", job_id, "ok">>)
          /\ pc' = IF archive_list = << >> THEN "di_as_completed" ELSE "di_submit"
          /\ UNCHANGED <<log, result, wfj_result>>
       \/ \E exc \in Exceptions :
          /\ calls' = Append(calls, <<"get_job_output", job_id, exc>>)
          /\ Raise(exc, IF exc = "ClientError" /\ ~legacy
                        THEN Append(log, <<"error", "get_job_output_failed">>)
                        ELSE log)
    /\ UNCHANGED <<service, op, legacy, jobs, job_id, job_status, attempts, sleeps,
                   archive_list>>
    /\ GetClient(MainThread)
    /\ UNCHANGED <<startup, monitor>>

RerunNext ==
    \/ SelectDeleteInventory
    \/ DiFetch
    \/ DiSubmit
    \/ WorkerStart
    \/ WorkerFinish
    \/ DiAsCompleted
    \/ DiShutdown
    \/ SelectAgain
    \/ DiRefetch

RerunSpec == RerunInit /\ [][RerunNext]_vars

(***************************************************************************)
(* Vocabulary of the properties.                                           *)
(***************************************************************************)
Idx(name) == { k \in 1..Len(calls) : calls[k][1] = name }
Count(name) == Cardinality(Idx(name))
DeleteVaultIssued == Idx("delete_vault") # {}
Polled(status) == \E k \in Idx("describe_job") : calls[k][3] = status
InProgressPolls == Cardinality({ k \in Idx("describe_job") : calls[k][3] = "InProgress" })
Logged(level, msg) == \E k \in 1..Len(log) : log[k] = <<level, msg>>
LogCount(level, msg) == Cardinality({ k \in 1..Len(log) : log[k] = <<level, msg>> })
Finished == {"ok", "ClientError", "Exception"}
FailedTasks == { i \in 1..Len(tasks) : tasks[i] \in {"ClientError", "Exception"} }
InventoryReturned == retval[1] # "unset"
InventoryFetched == \E k \in Idx("get_job_output") : calls[k][3] = "ok"
IncompleteListed ==
    { p \in 1..Len(jobs) : jobs[p].Action = "InventoryRetrieval" /\ ~jobs[p].Completed }

(***************************************************************************)
(* C1 as stated: when the job listing of delete_vault contains an          *)
(* incomplete inventory-retrieval job, the delete-vault call is not issued *)
(* while that job is still in progress.  (A job that is in progress right  *)
(* after the call was in progress when it was made: a status never goes    *)
(* back to InProgress.)                                                    *)
(***************************************************************************)
C1_NeverWhileInProgress ==
    (op = "delete_vault" /\ DeleteVaultIssued /\ IncompleteListed # {}) =>
        StatusOf(JobList, jobs[Min(IncompleteListed)].JobId) # "InProgress"

(***************************************************************************)
(* C1 amended: when list_jobs answered and its listing holds an incomplete *)
(* inventory-retrieval job, delete-vault is called only after a            *)
(* describe_job poll of the first such job of the listing has either       *)
(* answered a status other than InProgress (the job has then left          *)
(* InProgress) or raised; other incomplete jobs are not awaited.           *)
(***************************************************************************)
C1_WaitsForFirstListed ==
    (op = "delete_vault" /\ DeleteVaultIssued /\ IncompleteListed # {}) =>
        LET first == jobs[Min(IncompleteListed)].JobId
            dv == Min(Idx("delete_vault"))
        IN  /\ \A k \in Idx("describe_job") : calls[k][2] = first
            /\ \E k \in Idx("describe_job") :
                 /\ k < dv
                 /\ calls[k][3] # "InProgress"
                 /\ calls[k][3] \in {"Succeeded", "Failed"} =>
                        StatusOf(JobList, first) = calls[k][3]

C1_Witness ==
    /\ op = "delete_vault"
    /\ DeleteVaultIssued
    /\ IncompleteListed # {}
    /\ InProgressPolls >= 1
    /\ Polled("Succeeded")

C3_StepsOrdered ==
    op = "delete_vault" =>
        /\ \A d \in Idx("describe_job"), g \in Idx("get_job_output") : d < g
        /\ \A g \in Idx("get_job_output"), a \in Idx("delete_archive") : g < a
        /\ \A a \in Idx("delete_archive"), v \in Idx("delete_vault") : a < v
        /\ DeleteVaultIssued => \A i \in 1..Len(tasks) : tasks[i] \in Finished

C3_Witness ==
    /\ op = "delete_vault"
    /\ DeleteVaultIssued
    /\ Idx("describe_job") # {}
    /\ Len(tasks) >= 2

(***************************************************************************)
(* C4: when the delete-vault call raises InvalidParameterValueException,   *)
(* delete_vault logs the warning, returns without raising, the call is the *)
(* last service call and the vault still exists.                           *)
(***************************************************************************)
C4_NotEmptyIsWarning ==
    \A k \in Idx("delete_vault") :
        calls[k][3] = "InvalidParameterValueException" =>
            /\ result = "returned"
            /\ log[Len(log)] = <<"warning", "vault_not_empty">>
            /\ k = Len(calls)
            /\ vaultExists

C4_Witness ==
    /\ pc = "done"
    /\ \E k \in Idx("delete_vault") : calls[k][3] = "InvalidParameterValueException"
    /\ vaultArchives # {}

(***************************************************************************)
(* C5: when the delete-vault call fails with any other error, delete_vault *)
(* raises that error to its caller and logs no not-empty warning.          *)
(***************************************************************************)
C5_OtherErrorPropagates ==
    \A k \in Idx("delete_vault") :
        calls[k][3] \in {"ClientError", "Exception"} =>
            /\ pc = "done"
            /\ result = calls[k][3]
            /\ ~Logged("warning", "vault_not_empty")
            /\ ~Logged("info", "deleted_vault")

C5_Witness ==
    /\ pc = "done"
    /\ result = "ClientError"
    /\ \E k \in Idx("delete_vault") : calls[k][3] = "ClientError"

(***************************************************************************)
(* C6: delete_inventory on N entries never issues more than N              *)
(* delete_archive calls nor more than one per entry, never reports more    *)
(* progress than N; when it returns it has issued exactly N calls, one per *)
(* entry, and reported progress N times; with N = 0 neither the loop over  *)
(* as_completed nor the shutdown has anything to wait for.                 *)
(***************************************************************************)
C6_OneCallPerEntry ==
    LET N == Len(archive_list) IN
    /\ Count("delete_archive") <= N
    /\ progress <= N
    /\ \A a, b \in Idx("delete_archive") : calls[a][2] = calls[b][2] => a = b
    /\ InventoryReturned =>
        /\ Count("delete_archive") = N
        /\ { calls[a][2] : a \in Idx("delete_archive") } = { archive_list[i] : i \in 1..N }
        /\ progress = N
    /\ (N = 0 /\ pc = "di_as_completed") => yielded = 1..Len(tasks)
    /\ (N = 0 /\ pc = "di_shutdown") => Joined

C6_Witness ==
    /\ InventoryReturned
    /\ Len(archive_list) >= 2
    /\ FailedTasks # {}
    /\ progress = Len(archive_list)

(***************************************************************************)
(* C7: once the inventory is fetched, a failing delete_archive call stops  *)
(* nothing: delete_inventory does not raise (no exception reaches its      *)
(* caller or the try block of delete_vault), and when it returns every     *)
(* entry of the inventory has been attempted.                              *)
(***************************************************************************)
C7_FailureIsolated ==
    InventoryFetched =>
        /\ ~Logged("warning", "could_not_check_jobs")
        /\ op = "delete_inventory" => result \in {"none", "returned"}
        /\ InventoryReturned =>
            /\ Len(tasks) = Len(archive_list)
            /\ \A i \in 1..Len(tasks) : tasks[i] \in Finished

C7_Witness ==
    /\ InventoryReturned
    /\ \E i, j \in 1..Len(tasks) : i < j /\ tasks[i] = "Exception" /\ tasks[j] = "ok"

(***************************************************************************)
(* C8 as stated: delete_inventory returns a summary of attempted,          *)
(* succeeded and failed counts with succeeded + failed = N.                *)
(***************************************************************************)
C8_ReturnsSummary ==
    InventoryReturned =>
        /\ retval[1] = "summary"
        /\ retval[3] + retval[4] = Len(archive_list)

(***************************************************************************)
(* C8 amended: delete_inventory returns None whatever the outcomes; the    *)
(* only report of a partial failure is in the log, one 'Failed to delete   *)
(* archive' error record per failed attempt (none in the older bulk        *)
(* delete).                                                                *)
(***************************************************************************)
C8_ReturnsNoneLogsFailures ==
    InventoryReturned =>
        /\ retval = <<"None">>
        /\ LogCount("error", "delete_archive_failed") =
              IF legacy THEN 0 ELSE Cardinality(FailedTasks)

C8_Witness ==
    /\ InventoryReturned
    /\ ~legacy
    /\ Cardinality(FailedTasks) = 1
    /\ \E i \in 1..Len(tasks) : tasks[i] = "ok"

(***************************************************************************)
(* C9: in wait_for_job every InProgress answer is followed by exactly one  *)
(* sleep before the next poll; when the answers are k times InProgress and *)
(* then Succeeded there are exactly k + 1 polls and k sleeps, no poll or   *)
(* sleep follows, and get_job_output is called exactly once, after the     *)
(* last poll.                                                              *)
(***************************************************************************)
C9_PollsAndSleeps ==
    op = "delete_vault" =>
        /\ pc = "wfj_sleep" => (sleeps + 1 = InProgressPolls /\ attempts = InProgressPolls)
        /\ pc # "wfj_sleep" => (sleeps = InProgressPolls /\ attempts = InProgressPolls)
        /\ Polled("Succeeded") =>
            /\ Count("describe_job") = InProgressPolls + 1
            /\ pc \notin {"wfj_poll", "wfj_sleep"}
            /\ Count("get_job_output") = IF pc = "di_fetch" THEN 0 ELSE 1
            /\ \A d \in Idx("describe_job"), g \in Idx("get_job_output") : d < g

C9_Witness ==
    /\ Polled("Succeeded")
    /\ InProgressPolls >= 2
    /\ sleeps = InProgressPolls
    /\ Count("get_job_output") = 1

(***************************************************************************)
(* C10: when the job's status sequence ends in Failed, wait_for_job issues *)
(* no get_job_output and no delete_archive call.                           *)
(***************************************************************************)
C10_FailedNeverConsumes ==
    Polled("Failed") =>
        /\ Count("get_job_output") = 0
        /\ Count("delete_archive") = 0
        /\ tasks = << >>

C10_Witness ==
    /\ Polled("Failed")
    /\ InProgressPolls >= 1
    /\ pc = "done"

(***************************************************************************)
(* C11 as stated: when describe_job raises during wait_for_job, the loop   *)
(* ends, no inventory deletion is triggered and the caller of wait_for_job *)
(* receives the error.                                                     *)
(***************************************************************************)
C11_ErrorSurfaced ==
    (Polled("ClientError") \/ Polled("Exception")) =>
        /\ pc \notin {"wfj_poll", "wfj_sleep"}
        /\ Count("get_job_output") = 0
        /\ Count("delete_archive") = 0
        /\ wfj_result \in Exceptions

(***************************************************************************)
(* C11 amended: when describe_job raises a ClientError the loop ends, no   *)
(* inventory deletion is triggered, the error is logged and wait_for_job   *)
(* returns None as on any other path, so its caller is not told; only an   *)
(* exception that is no ClientError reaches the caller.                    *)
(***************************************************************************)
C11_ErrorLoggedNotSurfaced ==
    /\ Polled("ClientError") =>
        /\ pc \notin {"wfj_poll", "wfj_sleep"}
        /\ Count("get_job_output") = 0
        /\ Count("delete_archive") = 0
        /\ Logged("error", "describe_job_failed")
        /\ wfj_result = "None"
    /\ Polled("Exception") =>
        /\ pc \notin {"wfj_poll", "wfj_sleep"}
        /\ Count("get_job_output") = 0
        /\ Count("delete_archive") = 0
        /\ wfj_result = "Exception"

C11_Witness ==
    /\ Polled("ClientError")
    /\ InProgressPolls >= 1
    /\ wfj_result = "None"
    /\ pc = "done"

(***************************************************************************)
(* C15: every get_job_output call names an inventory-retrieval job that    *)
(* the service holds as completed and Succeeded, whether the call comes    *)
(* from wait_for_job or from the 'Delete Inventory' action.                *)
(***************************************************************************)
C15_FetchOnlySucceeded ==
    \A k \in Idx("get_job_output") :
        \E p \in 1..Len(JobList) :
            /\ JobList[p].JobId = calls[k][2]
            /\ JobList[p].Action = "InventoryRetrieval"
            /\ JobList[p].Completed
            /\ JobList[p].StatusCode = "Succeeded"

C15_Witness ==
    /\ op = "delete_inventory"
    /\ Idx("get_job_output") # {}
    /\ \E p \in 1..Len(JobList) : JobList[p].StatusCode = "Failed"

(***************************************************************************)
(* C16: when AWS_REGION or AWS_PROFILE is missing, no service operation is *)
(* ever issued and the process ends with a non-zero status, in interactive *)
(* and in --report mode.                                                   *)
(***************************************************************************)
C16_ConfigCheckedFirst ==
    (~env_region \/ ~env_profile) =>
        /\ calls = << >>
        /\ pc = "exited" => exit_code = "1"

C18_InFlightBound ==
    Cardinality(Running) <= Min({CpuCount, Len(archive_list)})

(***************************************************************************)
(* C19: the progress count never decreases, never exceeds the number of    *)
(* delete attempts that have completed nor N, equals N when                *)
(* delete_inventory returns, and is below N as long as an attempt has not  *)
(* completed.                                                              *)
(***************************************************************************)
C19_ProgressPerAttempt ==
    /\ [][progress' >= progress]_vars
    /\ [](LET N == Len(archive_list)
               completed == { i \in 1..Len(tasks) : tasks[i] \in Finished }
          IN  /\ progress <= Cardinality(completed)
              /\ progress <= N
              /\ InventoryReturned => progress = N
              /\ (N > 0 /\ progress = N) => Cardinality(completed) = N)

C19_Witness ==
    /\ progress = 1
    /\ Len(archive_list) >= 2
    /\ \E i \in yielded : tasks[i] \in {"ClientError", "Exception"}
    /\ Running # {}

(***************************************************************************)
(* Vocabulary of the monitor_jobs properties.                              *)
(***************************************************************************)
SnapIdx == { k \in 1..Len(mtrace) : mtrace[k][1] = "snapshot" }
\* pairs <<j, k>>: the snapshot at k is the one taken next after that at j
ConsecutiveSnaps ==
    { jk \in SnapIdx \X SnapIdx :
        /\ jk[1] < jk[2]
        /\ \A i \in SnapIdx : ~(jk[1] < i /\ i < jk[2]) }
Range(seq) == { seq[i] : i \in 1..Len(seq) }
SameRecords(a, b) == Len(a) = Len(b) /\ Range(a) = Range(b)
\* a step of the loop that takes a new snapshot and compares it
LoopSnapshotTaken == mpc = "loop" /\ jobs_last # << >> /\ mpc' \in {"sleep", "done"}

(***************************************************************************)
(* C12: monitor_jobs goes on while the new snapshot equals the previous    *)
(* one, ends at the first snapshot that differs, and then its last output  *)
(* is print_jobs of that changed snapshot, whatever it contains.           *)
(***************************************************************************)
C12_PrintsChangedSnapshot ==
    /\ [][LoopSnapshotTaken =>
            IF jobs_last'[1] = jobs_last[1]
            THEN mpc' = "sleep" /\ ~changed'
            ELSE mpc' = "done" /\ changed']_vars
    /\ []((mpc = "done" /\ changed) =>
            /\ mtrace[Len(mtrace)][1] = "print"
            /\ printed[Len(printed)] = jobs_last[1]
            /\ Logged("info", "job_status_changed"))

(***************************************************************************)
(* C13: when the initial check finds no incomplete inventory-retrieval     *)
(* job, monitor_jobs ends at once: one listing pass only, no sleep, no     *)
(* print_jobs, no change reported.                                         *)
(***************************************************************************)
C13_NothingToWatch ==
    (mtrace # << >> /\ mtrace[1] = <<"snapshot", 0>>) =>
        /\ Len(mtrace) = 1
        /\ printed = << >>
        /\ Count("list_vaults") = 1
        /\ mpc \in {"loop", "done"}
        /\ jobs_last = << >>
        /\ ~changed
        /\ ~Logged("info", "job_status_changed")

C13_Witness ==
    /\ mpc = "done"
    /\ mtrace = <<<<"snapshot", 0>>>>
    /\ \E v \in 1..Len(fleet) : fleet[v].JobList # << >>
    /\ Count("list_jobs") = Len(fleet)

(***************************************************************************)
(* C14: a snapshot holding the same job records as the previous one, in    *)
(* whatever order, does not end the loop.                                  *)
(***************************************************************************)
C14_OrderIgnored ==
    [][(LoopSnapshotTaken /\ SameRecords(jobs_last'[1], jobs_last[1])) =>
            (mpc' = "sleep" /\ ~changed')]_vars

(***************************************************************************)
(* C20: between any two snapshots monitor_jobs has slept.                  *)
(***************************************************************************)
C20_SleepBeforeEachSnapshot ==
    \A jk \in ConsecutiveSnaps :
        \E i \in (jk[1] + 1)..(jk[2] - 1) : mtrace[i][1] = "sleep"

(***************************************************************************)
(* C21: once get_jobs has been through, the job delete_vault waits on is   *)
(* the incomplete inventory-retrieval job that comes first in the listing, *)
(* whatever its id, and every describe_job call names it; when the listing *)
(* holds no such job, no job is waited on and no describe_job is issued.   *)
(***************************************************************************)
C21_FirstInListingOrder ==
    (op = "delete_vault" /\ pc # "dv_get_jobs") =>
        IF IncompleteListed = {}
        THEN job_id = NoJob /\ Count("describe_job") = 0
        ELSE /\ job_id = jobs[Min(IncompleteListed)].JobId
             /\ \A k \in Idx("describe_job") : calls[k][2] = job_id

C21_Witness ==
    /\ op = "delete_vault"
    /\ Cardinality(IncompleteListed) >= 2
    /\ \E p \in IncompleteListed : jobs[p].JobId < job_id
    /\ Count("describe_job") >= 1

(***************************************************************************)
(* Vocabulary of the wait_for_job properties.                              *)
(***************************************************************************)
Polling == pc \in {"wfj_poll", "wfj_sleep"}
\* the step is a describe_job poll that did not answer InProgress
PollNotInProgress ==
    /\ Len(calls') = Len(calls) + 1
    /\ calls'[Len(calls')][1] = "describe_job"
    /\ calls'[Len(calls')][3] # "InProgress"

(***************************************************************************)
(* C22: wait_for_job leaves its polling loop exactly in the step in which  *)
(* a poll answers a status other than InProgress or raises; it has not     *)
(* ended as long as every poll answered InProgress, however many there     *)
(* were; and once the job has left InProgress, wait_for_job ends (it       *)
(* returns, after delete_inventory when the status is Succeeded, or an     *)
(* exception leaves it).                                                   *)
(***************************************************************************)
C22_EndsOnlyOnChangeOrError ==
    /\ [][Polling => (Polling' <=> ~PollNotInProgress)]_vars
    /\ []((job_id # NoJob /\ wfj_result # "unset") =>
            \E k \in Idx("describe_job") : calls[k][3] # "InProgress")
    /\ (Polling /\ StatusOf(JobList, job_id) # "InProgress") ~> (wfj_result # "unset")

C22_Witness ==
    /\ InProgressPolls = MaxPolls
    /\ Polled("Succeeded")
    /\ wfj_result = "None"
    /\ Len(tasks) >= 1

(***************************************************************************)
(* C24: when the listing get_jobs returned holds no incomplete             *)
(* inventory-retrieval job, the calls of delete_vault are that list_jobs   *)
(* call and, once it has finished, one delete-vault call, nothing else;    *)
(* when the vault is empty and the service accepts the deletion,           *)
(* delete_vault logs the deletion and returns.                             *)
(***************************************************************************)
C24_NothingToWaitFor ==
    (calls # << >> /\ calls[1][3] = "ok" /\ IncompleteListed = {}) =>
        /\ \A k \in 2..Len(calls) : calls[k][1] = "delete_vault"
        /\ Len(calls) <= 2
        /\ pc = "done" => Len(calls) = 2
        /\ sleeps = 0 /\ tasks = << >>
        /\ (pc = "done" /\ vaultArchives = {} /\ calls[2][3] = "ok") =>
            /\ result = "returned"
            /\ log = << <<"info", "deleted_vault">> >>
            /\ ~vaultExists

C24_Witness ==
    /\ pc = "done"
    /\ vaultArchives = {}
    /\ \E p \in 1..Len(jobs) :
        jobs[p].Action = "InventoryRetrieval" /\ jobs[p].StatusCode = "Succeeded"
    /\ IncompleteListed = {}
    /\ calls = << <<"list_jobs", 0, "ok">>, <<"delete_vault", 0, "ok">> >>

(***************************************************************************)
(* Vocabulary of the repeated delete_inventory.                            *)
(***************************************************************************)
\* delete_inventory is running, or has run, for the second time or later,
\* and this run has fetched the inventory
RerunFetched ==
    /\ Count("get_job_output") >= 2
    /\ \E g \in Idx("get_job_output") :
        /\ \A h \in Idx("get_job_output") : h <= g
        /\ calls[g][3] = "ok"
\* every archive of the inventory is gone from the vault
AllDeleted == \A i \in 1..Len(archive_list) : archive_list[i] \notin vaultArchives

(***************************************************************************)
(* C23: in a repeated run of delete_inventory in which every archive of    *)
(* the inventory is already deleted, no exception leaves delete_inventory  *)
(* whatever the service answers to the delete calls, the run returns, and  *)
(* no step changes the archives of the vault.                              *)
(***************************************************************************)
C23_RerunHarmless ==
    /\ []((RerunFetched /\ AllDeleted) =>
            /\ result \notin Exceptions
            /\ pc \in {"done", "exited"} => (retval = <<"None">> /\ progress = Len(archive_list)))
    /\ [][(RerunFetched /\ AllDeleted) => vaultArchives' = vaultArchives]_vars

C23_Witness ==
    /\ RerunFetched
    /\ AllDeleted
    /\ pc = "done"
    /\ result = "returned"
    /\ \E i \in 1..Len(tasks) : tasks[i] = "ok"
    /\ \E i \in 1..Len(tasks) : tasks[i] \in Exceptions

====
